---- MODULE Spec2Model ----
(***************************************************************************)
(* The real-time duplex audio session core of src/App.tsx: the session     *)
(* control toggleConnection and the transport callbacks it installs, the   *)
(* inbound message handler handleLiveMessage (transcript aggregation,      *)
(* interruption, playback scheduling) and stopAllAudio.                    *)
(*                                                                         *)
(* JavaScript runs each callback to completion, so one action is one       *)
(* callback run up to its next await.  handleLiveMessage awaits the decode *)
(* of an audio payload (App.tsx:194) and toggleConnection awaits the       *)
(* microphone (213) and the session (241): the code after an await is an   *)
(* action of its own, and other callbacks may run in between.              *)
(***************************************************************************)
EXTENDS Integers, Sequences, FiniteSets, TLC

\* ------------------------------------------------------------------ bounds
MaxAttempts == 2      \* start attempts (toggleConnection's try branch)
MaxStreams == 1       \* start attempts while inbound messages are explored
MaxChunks == 2        \* inbound audio payloads
MaxTime == 2          \* ticks of the output clock
MaxDeltas == 3        \* inbound messages that carry a transcription delta
MaxTurns == 2         \* inbound turnComplete events
MaxPending == 1       \* history updaters queued and not yet rendered
MaxSamples == 2       \* samples of an AudioFrame
SubSteps == 4         \* sample values told apart within one quantization step

\* ------------------------------------------------------------------ values
DISCONNECTED == "DISCONNECTED"
CONNECTING == "CONNECTING"
CONNECTED == "CONNECTED"
ERROR == "ERROR"
ConnectionStatus == {DISCONNECTED, CONNECTING, CONNECTED, ERROR}

Attempts == 1..MaxAttempts
NoSession == 0
\* audioBuffer.duration of a decoded payload, in ticks of the output clock.
Durations == {1, 2}
\* An optional field of a message: <<>> when absent, <<v>> when present.
Opt(S) == {<<>>} \cup {<<v>> : v \in S}

Max(a, b) == IF a >= b THEN a ELSE b

VARIABLES
  status,              \* useState status (App.tsx:80)
  isListening,         \* useState isListening (82)
  sessionRef,          \* sessionRef.current: an attempt's session, or NoSession (121)
  attempt,             \* attempt -> where that run of toggleConnection's try branch is
  attemptFrom,         \* history: the status each start attempt was invoked in
  closeCalled,         \* history: sessions on which close() was called
  capture,             \* attempts whose scriptProcessor.onaudioprocess is wired (221)
  sentIn,              \* history: the statuses in which a frame was sent
  clock,               \* wall time, in ticks
  outputAudioContext,  \* outputAudioContextRef.current: context of an attempt, or 0 (117)
  ctxBirth,            \* context -> clock at its creation (currentTime starts at 0)
  nextStartTime,       \* nextStartTimeRef.current (118)
  activeSources,       \* activeSourcesRef.current, as chunk ids (119)
  chunks,              \* per inbound audio payload, in arrival order: its handling
  lastStarted,         \* history: the chunk of the latest source.start call, or 0
  cutSinceStart,       \* history: an interrupt was handled since the last source.start
  cutSinceArrival,     \* history: an interrupt was handled since the last audio payload
  currentInputTranscription,   \* ref (123)
  currentOutputTranscription,  \* ref (124)
  streamingUserText,   \* useState (108)
  streamingModelText,  \* useState (109)
  history,             \* useState history (81): the log of finalized Messages
  pendingHistory,      \* setHistory updaters queued for the next render
  nDeltas,             \* history: messages that carried a transcription delta
  rcvIn, rcvOut,       \* history: delta texts the messages of this turn carried
  turnLog,             \* history: per turnComplete, <<rcvIn, rcvOut>> at that event
  frame,               \* the AudioFrame the capture callback was given (222)
  encoded,             \* the EncodedChunk made of it (223)
  decoded,             \* the samples decoded from that chunk
  codecPc              \* how far the frame has gone through the codec

sessionVars == <<status, isListening, sessionRef, attempt, attemptFrom, closeCalled,
                 capture, sentIn, outputAudioContext, ctxBirth>>
audioVars == <<nextStartTime, activeSources, chunks, lastStarted, cutSinceStart,
               cutSinceArrival>>
textVars == <<currentInputTranscription, currentOutputTranscription, streamingUserText,
              streamingModelText, history, pendingHistory, nDeltas, rcvIn, rcvOut,
              turnLog>>
codecVars == <<frame, encoded, decoded, codecPc>>
vars == <<sessionVars, clock, audioVars, textVars, codecVars>>

\* State after the component is constructed (App.tsx:80-124).
Init ==
  /\ status = DISCONNECTED
  /\ isListening = FALSE
  /\ sessionRef = NoSession
  /\ attempt = [a \in Attempts |-> "none"]
  /\ attemptFrom = [a \in Attempts |-> "none"]
  /\ closeCalled = {}
  /\ capture = {}
  /\ sentIn = {}
  /\ clock = 0
  /\ outputAudioContext = 0
  /\ ctxBirth = [a \in Attempts |-> 0]
  /\ nextStartTime = 0
  /\ activeSources = {}
  /\ chunks = <<>>
  /\ lastStarted = 0
  /\ cutSinceStart = FALSE
  /\ cutSinceArrival = FALSE
  /\ currentInputTranscription = <<>>
  /\ currentOutputTranscription = <<>>
  /\ streamingUserText = <<>>
  /\ streamingModelText = <<>>
  /\ history = <<>>
  /\ pendingHistory = 0
  /\ nDeltas = 0
  /\ rcvIn = <<>>
  /\ rcvOut = <<>>
  /\ turnLog = <<>>
  /\ frame = <<>>
  /\ encoded = <<>>
  /\ decoded = <<>>
  /\ codecPc = "idle"

\* setStatus(s).
SetStatus(s) == status' = s

NumAttempts == Cardinality({a \in Attempts : attempt[a] # "none"})

\* ------------------------------------------------- session lifecycle (204-243)
\* sessionRef.current?.close() (206): close() on the session the ref holds, if any.
\* Closing a session that is open starts its closing handshake; on any other it is
\* a no-op.
CloseSession(att, ref) ==
  IF ref # NoSession /\ att[ref] = "open" THEN [att EXCEPT ![ref] = "closing"] ELSE att

\* A stop test that also fires while a session is still held in sessionRef.
StopTakenWhileHeld(s) == s = CONNECTED \/ (s = DISCONNECTED /\ sessionRef # NoSession)

\* The test that sends toggleConnection into its stop branch (205).
StopTaken(s) == s = CONNECTED

\* toggleConnection, the branch taken when the rendered status is CONNECTED (205-207).
StopBranch ==
  /\ StopTaken(status)
  /\ attempt' = CloseSession(attempt, sessionRef)
  /\ closeCalled' = IF sessionRef # NoSession THEN closeCalled \cup {sessionRef}
                    ELSE closeCalled
  /\ SetStatus(DISCONNECTED)
  /\ isListening' = FALSE
  /\ UNCHANGED <<sessionRef, attemptFrom, capture, sentIn, outputAudioContext, ctxBirth,
                 clock, audioVars, textVars, codecVars>>

\* The statuses in which toggleConnection takes its try branch (205, 208).
StartAccepted(s) == ~StopTaken(s)

\* toggleConnection, the try branch up to await getUserMedia (208-213): it sets
\* CONNECTING and replaces both audio contexts; a new context's currentTime is 0.
StartBranch ==
  /\ StartAccepted(status)
  /\ NumAttempts < MaxAttempts
  /\ LET a == NumAttempts + 1 IN
       /\ attempt' = [attempt EXCEPT ![a] = "mic"]
       /\ attemptFrom' = [attemptFrom EXCEPT ![a] = status]
       /\ outputAudioContext' = a
       /\ ctxBirth' = [ctxBirth EXCEPT ![a] = clock]
  /\ SetStatus(CONNECTING)
  /\ UNCHANGED <<isListening, sessionRef, closeCalled, capture, sentIn,
                 clock, audioVars, textVars, codecVars>>

\* The session control the UI invokes (onClick, 329).
toggleConnection == StopBranch \/ StartBranch

\* getUserMedia resolves (213) and ai.live.connect opens the transport (214).
MicGranted(a) ==
  /\ attempt[a] = "mic"
  /\ attempt' = [attempt EXCEPT ![a] = "opening"]
  /\ UNCHANGED <<status, isListening, sessionRef, attemptFrom, closeCalled,
                 capture, sentIn, outputAudioContext, ctxBirth, clock, audioVars, textVars, codecVars>>

\* A catch clause that reports the error and opens the transport all the same.
MicDeniedThenConnects(a) ==
  /\ attempt[a] = "mic"
  /\ attempt' = [attempt EXCEPT ![a] = "opening"]
  /\ SetStatus(ERROR)
  /\ UNCHANGED <<isListening, sessionRef, attemptFrom, closeCalled, capture, sentIn,
                 outputAudioContext, ctxBirth, clock, audioVars, textVars, codecVars>>

\* getUserMedia rejects: the catch clause (242).
MicDenied(a) ==
  /\ attempt[a] = "mic"
  /\ attempt' = [attempt EXCEPT ![a] = "failed"]
  /\ SetStatus(ERROR)
  /\ UNCHANGED <<isListening, sessionRef, attemptFrom, closeCalled, capture, sentIn,
                 outputAudioContext, ctxBirth, clock, audioVars, textVars, codecVars>>

\* onopen (217-227) wires the capture pipeline; connect() resolves in the same
\* task, so sessionRef.current = await sessionPromise (241) completes with it.
OnOpen(a) ==
  /\ attempt[a] = "opening"
  /\ attempt' = [attempt EXCEPT ![a] = "open"]
  /\ SetStatus(CONNECTED)
  /\ isListening' = TRUE
  /\ capture' = capture \cup {a}
  /\ sessionRef' = a
  /\ UNCHANGED <<attemptFrom, closeCalled, sentIn, outputAudioContext, ctxBirth,
                 clock, audioVars, textVars, codecVars>>

\* isListening after onerror: the callback does not touch it (229-232).
ListeningAfterError(l) == l

\* An onerror that silences playback as an interrupt does.
OnErrorStopsAudio(a) ==
  /\ attempt[a] \in {"opening", "open", "closing"}
  /\ attempt' = [attempt EXCEPT ![a] = "errored"]
  /\ SetStatus(ERROR)
  /\ isListening' = ListeningAfterError(isListening)
  /\ activeSources' = {}
  /\ nextStartTime' = 0
  /\ chunks' = [k \in DOMAIN chunks |->
                  [chunks[k] EXCEPT !.st = IF k \in activeSources THEN "stopped" ELSE @]]
  /\ UNCHANGED <<sessionRef, attemptFrom, closeCalled, capture, sentIn,
                 outputAudioContext, ctxBirth, clock, lastStarted, cutSinceStart,
                 cutSinceArrival, textVars, codecVars>>

\* onerror (229-232): the transport fails while opening, open or closing.
OnError(a) ==
  /\ attempt[a] \in {"opening", "open", "closing"}
  /\ attempt' = [attempt EXCEPT ![a] = "errored"]
  /\ SetStatus(ERROR)
  /\ isListening' = ListeningAfterError(isListening)
  /\ UNCHANGED <<sessionRef, attemptFrom, closeCalled, capture, sentIn,
                 outputAudioContext, ctxBirth, clock, audioVars, textVars, codecVars>>

\* An onclose that reconnects by itself.
OnCloseReconnects(a) ==
  /\ attempt[a] \in {"open", "closing", "errored"}
  /\ attempt' = [attempt EXCEPT ![a] = "closed"]
  /\ SetStatus(CONNECTING)
  /\ UNCHANGED <<isListening, sessionRef, attemptFrom, closeCalled, capture, sentIn,
                 outputAudioContext, ctxBirth, clock, audioVars, textVars, codecVars>>

\* onclose (233): the transport closed, by the peer, after close() or after an error.
OnClose(a) ==
  /\ attempt[a] \in {"open", "closing", "errored"}
  /\ attempt' = [attempt EXCEPT ![a] = "closed"]
  /\ SetStatus(DISCONNECTED)
  /\ UNCHANGED <<isListening, sessionRef, attemptFrom, closeCalled, capture, sentIn,
                 outputAudioContext, ctxBirth, clock, audioVars, textVars, codecVars>>

\* scriptProcessor.onaudioprocess (221-225): every captured frame is encoded and
\* sent on the session of the attempt that wired it; nothing ever unwires it.
AudioProcess(a) ==
  /\ a \in capture
  /\ sentIn' = sentIn \cup {status}
  /\ UNCHANGED <<status, isListening, sessionRef, attempt, attemptFrom,
                 closeCalled, capture, outputAudioContext, ctxBirth, clock, audioVars,
                 textVars, codecVars>>

SessionNext ==
  \/ toggleConnection
  \/ \E a \in Attempts : MicGranted(a)
  \/ \E a \in Attempts : MicDenied(a)
  \/ \E a \in Attempts : OnOpen(a)
  \/ \E a \in Attempts : OnError(a)
  \/ \E a \in Attempts : OnClose(a)
  \/ \E a \in Attempts : AudioProcess(a)

\* The session lifecycle alone: the control and the transport callbacks.
SpecSession == Init /\ [][SessionNext]_vars

\* -------------------------------------------------- inbound messages (173-202)
\* A LiveServerMessage as handleLiveMessage reads it: the serverContent fields
\* outputTranscription.text and inputTranscription.text (each optional),
\* interrupted, turnComplete, and whether modelTurn.parts[0].inlineData.data
\* carries an audio payload.
\* Text of a transcription delta, a sequence of characters: the n-th message that
\* carries a delta carries the one-character text <<n>>, so that every delta is
\* told from every other in a concatenation.
Texts == {<<nDeltas + 1>>}

Messages ==
  [outputTranscription : Opt(Texts), inputTranscription : Opt(Texts),
   interrupted : BOOLEAN, turnComplete : BOOLEAN, audio : BOOLEAN]

HasText(m) == m.outputTranscription # <<>> \/ m.inputTranscription # <<>>
AudioMessages ==
  {m \in Messages : ~HasText(m) /\ ~m.turnComplete /\ (m.audio \/ m.interrupted)}
TextMessages ==
  {m \in Messages : ~m.audio /\ ~m.interrupted /\ (HasText(m) \/ m.turnComplete)}

\* ctx.currentTime of the output context created by attempt c.
CurrentTime(c) == clock - ctxBirth[c]

\* currentOutputTranscription after lines 174-176.
AppendOutput(m, out) ==
  IF m.outputTranscription # <<>> THEN out \o m.outputTranscription[1] ELSE out

\* currentInputTranscription after lines 177-179: the else-if is reached only by
\* a message without an outputTranscription.
AppendInput(m, in) ==
  IF m.outputTranscription = <<>> /\ m.inputTranscription # <<>>
  THEN in \o m.inputTranscription[1] ELSE in

\* A stopAllAudio that stops the sources and forgets to clear the set.
stopAllAudioKeepsSet(active) == [stopped |-> active, active |-> active, next |-> 0]

\* stopAllAudio (167-171): every active source is stopped, the set is cleared
\* and the cursor is set to 0.
stopAllAudio(active) == [stopped |-> active, active |-> {}, next |-> 0]

\* The two Messages the setHistory updater appends (187), from the values the
\* two refs hold when the updater runs.
TurnMessages(in, out) ==
  <<[role |-> "user", text |-> in], [role |-> "model", text |-> out]>>

\* A cursor that is set to the output clock whatever it held.
ScheduleAtNow(next, now) == now

\* Line 193: the cursor is raised to the output clock before the decode starts.
ScheduleStart(next, now) == Max(next, now)

\* A cursor that is not advanced past the buffer it has just started.
ClockNotAdvanced(start, d) == start

\* Line 199: the cursor after source.start(cursor) of a buffer of duration d.
ClockAfterStart(start, d) == start + d

\* The record of an audio payload when its decode starts.  st is where its
\* handling is: decoding, failed (the decode threw), started (source.start was
\* called), stopped (stopAllAudio stopped its source), ended (onended ran).
\* start and dur are the arguments of its source.start and its buffer's duration.
\* History, kept while it is decoded: arrT, the output clock when it arrived;
\* afterCut, it is the first payload to arrive after an interrupt; cutInFlight,
\* an interrupt was handled since it arrived.
NewChunk(c, cut) ==
  [ctx |-> c, st |-> "decoding", arrT |-> CurrentTime(c), afterCut |-> cut,
   cutInFlight |-> FALSE, start |-> 0, dur |-> 0]

\* handleLiveMessage(m) up to its await (173-194).  React runs the updater given
\* to setHistory either at once (eager, when the component has no update queued)
\* or at the next render; the updater reads the two refs when it runs.
HandleLiveMessage(m, eager) ==
  /\ \E a \in Attempts : attempt[a] = "open"
  /\ HasText(m) \/ m.interrupted \/ m.turnComplete \/ m.audio
  /\ m.audio => Len(chunks) < MaxChunks
  /\ IF m.turnComplete
     THEN /\ Len(turnLog) < MaxTurns
          /\ IF eager THEN pendingHistory = 0 ELSE pendingHistory < MaxPending
     ELSE eager
  /\ LET out1 == AppendOutput(m, currentOutputTranscription)
         in1 == AppendInput(m, currentInputTranscription)
         rOut == IF m.outputTranscription # <<>>
                 THEN rcvOut \o m.outputTranscription[1] ELSE rcvOut
         rIn == IF m.inputTranscription # <<>>
                THEN rcvIn \o m.inputTranscription[1] ELSE rcvIn
         stop == IF m.interrupted THEN stopAllAudio(activeSources)
                 ELSE [stopped |-> {}, active |-> activeSources, next |-> nextStartTime]
         scheduled == m.audio /\ outputAudioContext # 0
     IN
       /\ HasText(m) => nDeltas < MaxDeltas
       /\ nDeltas' = IF HasText(m) THEN nDeltas + 1 ELSE nDeltas
       \* 174-180
       /\ streamingModelText' =
            IF m.turnComplete THEN <<>>
            ELSE IF m.outputTranscription # <<>> THEN out1 ELSE streamingModelText
       /\ streamingUserText' =
            IF m.turnComplete THEN <<>>
            ELSE IF m.outputTranscription = <<>> /\ m.inputTranscription # <<>>
                 THEN in1 ELSE streamingUserText
       \* 182-184
       /\ cutSinceStart' = (cutSinceStart \/ m.interrupted)
       /\ cutSinceArrival' = IF scheduled THEN FALSE ELSE (cutSinceArrival \/ m.interrupted)
       /\ activeSources' = stop.active
       \* 186-189
       /\ IF m.turnComplete
          THEN /\ currentInputTranscription' = <<>>
               /\ currentOutputTranscription' = <<>>
               /\ rcvIn' = <<>> /\ rcvOut' = <<>>
               /\ turnLog' = Append(turnLog, <<rIn, rOut>>)
               /\ IF eager
                  THEN history' = history \o TurnMessages(in1, out1)
                       /\ UNCHANGED pendingHistory
                  ELSE pendingHistory' = pendingHistory + 1 /\ UNCHANGED history
          ELSE /\ currentInputTranscription' = in1
               /\ currentOutputTranscription' = out1
               /\ rcvIn' = rIn /\ rcvOut' = rOut
               /\ UNCHANGED <<turnLog, history, pendingHistory>>
       \* 190-194
       /\ nextStartTime' =
            IF scheduled THEN ScheduleStart(stop.next, CurrentTime(outputAudioContext))
            ELSE stop.next
       /\ chunks' =
            LET marked == [k \in DOMAIN chunks |->
                             [chunks[k] EXCEPT
                                !.st = IF k \in stop.stopped THEN "stopped" ELSE @,
                                !.cutInFlight =
                                   @ \/ (m.interrupted /\ chunks[k].st = "decoding")]]
            IN IF scheduled
               THEN Append(marked, NewChunk(outputAudioContext,
                                            cutSinceArrival \/ m.interrupted))
               ELSE marked
  /\ UNCHANGED <<sessionVars, clock, lastStarted, codecVars>>

\* An updater that returns the two new Messages without spreading prev.
RenderDropsLog ==
  /\ pendingHistory > 0
  /\ history' = TurnMessages(currentInputTranscription, currentOutputTranscription)
  /\ pendingHistory' = pendingHistory - 1
  /\ UNCHANGED <<sessionVars, clock, audioVars, currentInputTranscription,
                 currentOutputTranscription, streamingUserText, streamingModelText,
                 nDeltas, rcvIn, rcvOut, turnLog, codecVars>>

\* A render runs the queued setHistory updaters: each reads the refs as they are now.
Render ==
  /\ pendingHistory > 0
  /\ history' = history \o TurnMessages(currentInputTranscription, currentOutputTranscription)
  /\ pendingHistory' = pendingHistory - 1
  /\ UNCHANGED <<sessionVars, clock, audioVars, currentInputTranscription,
                 currentOutputTranscription, streamingUserText, streamingModelText,
                 nDeltas, rcvIn, rcvOut, turnLog, codecVars>>

\* decodeAudioData(decode(base64Audio), ctx, 24000, 1) of chunk k has not settled
\* yet.  The decode may suspend, and the decodes of several payloads run
\* concurrently: any decode in flight may be the next to resolve or to reject.
DecodeInFlight(k) == k \in DOMAIN chunks /\ chunks[k].st = "decoding"

\* The decode of chunk k resolves with a buffer of duration d: the rest of
\* handleLiveMessage (195-200).
DecodeDone(k, d) ==
  /\ DecodeInFlight(k)
  /\ chunks' = [chunks EXCEPT ![k] =
                  [@ EXCEPT !.st = "started", !.start = nextStartTime, !.dur = d,
                            !.arrT = 0, !.afterCut = FALSE, !.cutInFlight = FALSE]]
  /\ nextStartTime' = ClockAfterStart(nextStartTime, d)
  /\ activeSources' = activeSources \cup {k}
  /\ lastStarted' = k
  /\ cutSinceStart' = FALSE
  /\ UNCHANGED <<sessionVars, clock, cutSinceArrival, textVars, codecVars>>

\* A failed decode whose chunk is booked all the same.
BookedDespiteFailure(next, active, k) == [next |-> next + 1, active |-> active \cup {k}]

\* What a rejected decode leaves of the cursor and the active set: the handler's
\* promise rejects at line 194 and nothing after it runs.
AfterDecodeFailure(next, active, k) == [next |-> next, active |-> active]

\* A decode failure that is reported as a failure of the session.
DecodeFailSetsError(k) ==
  /\ DecodeInFlight(k)
  /\ chunks' = [chunks EXCEPT ![k] =
                  [@ EXCEPT !.st = "failed", !.arrT = 0, !.afterCut = FALSE,
                            !.cutInFlight = FALSE]]
  /\ SetStatus(ERROR)
  /\ UNCHANGED <<isListening, sessionRef, attempt, attemptFrom, closeCalled, capture,
                 sentIn, outputAudioContext, ctxBirth, clock, nextStartTime,
                 activeSources, lastStarted, cutSinceStart, cutSinceArrival, textVars,
                 codecVars>>

\* The decode of chunk k throws (194).
DecodeFail(k) ==
  /\ DecodeInFlight(k)
  /\ chunks' = [chunks EXCEPT ![k] =
                  [@ EXCEPT !.st = "failed", !.arrT = 0, !.afterCut = FALSE,
                            !.cutInFlight = FALSE]]
  /\ nextStartTime' = AfterDecodeFailure(nextStartTime, activeSources, k).next
  /\ activeSources' = AfterDecodeFailure(nextStartTime, activeSources, k).active
  /\ UNCHANGED <<sessionVars, clock, lastStarted, cutSinceStart, cutSinceArrival, textVars, codecVars>>

\* source.onended (197): the buffer played to its end, or the source was stopped.
SourceEnded(k) ==
  /\ k \in DOMAIN chunks
  /\ \/ chunks[k].st = "stopped"
     \/ /\ chunks[k].st = "started"
        /\ CurrentTime(chunks[k].ctx) >= chunks[k].start + chunks[k].dur
  /\ chunks' = [chunks EXCEPT ![k].st = "ended"]
  /\ activeSources' = activeSources \ {k}
  /\ UNCHANGED <<sessionVars, clock, nextStartTime, lastStarted, cutSinceStart,
                 cutSinceArrival, textVars, codecVars>>

\* Time passes: every output context's currentTime advances.
Tick ==
  /\ clock < MaxTime
  /\ clock' = clock + 1
  /\ UNCHANGED <<sessionVars, audioVars, textVars, codecVars>>

\* ------------------------------------------------------------------ PCM codec
\* The codec is in ./utils/audioUtils (createBlob and decodeAudioData, imported
\* at App.tsx:5, called at 223 and 194).  A sample is a fraction of full scale:
\* the integer x stands for the floating-point sample x / Unit, so 1.0 is Unit
\* and one 16-bit quantization step is SubSteps.
\* The scale factor: the largest that takes [-1, 1] into the signed 16-bit range.
Scale == 32767
Unit == Scale * SubSteps

\* The sample values a frame is made of: around zero, around one quantization
\* step, around full scale on both sides, and far out of range.
Samples ==
  {0, 1, -1, SubSteps + 1, -(SubSteps + 1), Unit - 1, Unit, -Unit, Unit + 1, -(2 * Unit)}

RECURSIVE SeqsUpTo(_, _)
\* The sequences over S of length at most n.
SeqsUpTo(S, n) ==
  IF n = 0 THEN {<<>>}
  ELSE LET shorter == SeqsUpTo(S, n - 1)
       IN shorter \cup {Append(f, x) : f \in {g \in shorter : Len(g) = n - 1}, x \in S}

Frames == SeqsUpTo(Samples, MaxSamples)

\* A sample that is scaled as it comes.
NoClamp(x) == x

\* A sample clamped to [-1, 1].
Clamp(x) == IF x > Unit THEN Unit ELSE IF x < -Unit THEN -Unit ELSE x

\* x * Scale truncated to an integer (toward zero).
Quantize(x) == IF x >= 0 THEN x \div SubSteps ELSE -((-x) \div SubSteps)

\* The two bytes of a 16-bit two's-complement integer, little-endian.
Int16LE(q) == LET u == q % 65536 IN <<u % 256, u \div 256>>

\* The signed 16-bit integer two little-endian bytes stand for.
Int16Of(lo, hi) == LET u == lo + 256 * hi IN IF u >= 32768 THEN u - 65536 ELSE u

\* encode: every sample is clamped, scaled, truncated and written as two bytes.
encode(f) ==
  [i \in 1..(2 * Len(f)) |-> Int16LE(Quantize(Clamp(f[(i + 1) \div 2])))[2 - (i % 2)]]

\* decode: every pair of bytes is read as a 16-bit integer and divided by Scale.
decode(c) ==
  [i \in 1..(Len(c) \div 2) |-> Int16Of(c[2 * i - 1], c[2 * i]) * SubSteps]

\* The capture callback is given a frame (222).
CaptureFrame(f) ==
  /\ codecPc = "idle"
  /\ frame' = f
  /\ codecPc' = "captured"
  /\ UNCHANGED <<sessionVars, clock, audioVars, textVars, encoded, decoded>>

\* The frame is encoded for the transport (223).
EncodeFrame ==
  /\ codecPc = "captured"
  /\ encoded' = encode(frame)
  /\ codecPc' = "encoded"
  /\ UNCHANGED <<sessionVars, clock, audioVars, textVars, frame, decoded>>

\* The chunk is decoded again, as an inbound chunk is (194).
DecodeChunk ==
  /\ codecPc = "encoded"
  /\ decoded' = decode(encoded)
  /\ codecPc' = "decoded"
  /\ UNCHANGED <<sessionVars, clock, audioVars, textVars, frame, encoded>>

CodecNext ==
  \/ \E f \in Frames : CaptureFrame(f)
  \/ EncodeFrame
  \/ DecodeChunk

\* One frame taken through the codec and back.
SpecCodec == Init /\ [][CodecNext]_vars

\* ------------------------------------------------------------ specifications
Next ==
  \/ SessionNext
  \/ \E m \in Messages, eager \in BOOLEAN : HandleLiveMessage(m, eager)
  \/ Render
  \/ \E k \in 1..MaxChunks, d \in Durations : DecodeDone(k, d)
  \/ \E k \in 1..MaxChunks : DecodeFail(k)
  \/ \E k \in 1..MaxChunks : SourceEnded(k)
  \/ Tick
  \/ CodecNext

Spec == Init /\ [][Next]_vars

\* A session is started by its control and opened by the transport.
ConnectNext ==
  \/ StartBranch /\ NumAttempts < MaxStreams
  \/ \E a \in Attempts : MicGranted(a)
  \/ \E a \in Attempts : OnOpen(a)

\* The playback scheduler: audio payloads and interrupts, decodes that resolve
\* in any order or fail, the output clock.
SchedNext ==
  \/ ConnectNext
  \/ \E m \in AudioMessages : HandleLiveMessage(m, TRUE)
  \/ \E k \in 1..MaxChunks, d \in Durations : DecodeDone(k, d)
  \/ \E k \in 1..MaxChunks : DecodeFail(k)
  \/ \E k \in 1..MaxChunks : SourceEnded(k)
  \/ Tick

SpecSched == Init /\ [][SchedNext]_vars

\* The transcript aggregator: text deltas, turnComplete and renders.
TextNext ==
  \/ ConnectNext
  \/ \E m \in TextMessages, eager \in BOOLEAN : HandleLiveMessage(m, eager)
  \/ Render

SpecText == Init /\ [][TextNext]_vars

\* Sessions that follow one another, and their transcripts: the control, the
\* callbacks that open and close a session, and the text messages of whichever
\* session is open.
ResumeTextNext ==
  \/ toggleConnection
  \/ \E a \in Attempts : MicGranted(a)
  \/ \E a \in Attempts : OnOpen(a)
  \/ \E a \in Attempts : OnClose(a)
  \/ \E m \in TextMessages : HandleLiveMessage(m, TRUE)

SpecResumeText == Init /\ [][ResumeTextNext]_vars

\* Sessions that follow one another, and their playback: the control, the
\* callbacks that open a session, and the audio payloads of whichever session
\* is open.
ResumeAudioNext ==
  \/ toggleConnection
  \/ \E a \in Attempts : MicGranted(a)
  \/ \E a \in Attempts : OnOpen(a)
  \/ \E m \in AudioMessages : ~m.interrupted /\ HandleLiveMessage(m, TRUE)
  \/ \E k \in 1..MaxChunks, d \in Durations : DecodeDone(k, d)
  \/ \E k \in 1..MaxChunks : SourceEnded(k)
  \/ Tick

SpecResumeAudio == Init /\ [][ResumeAudioNext]_vars

\* The playback scheduler of a session whose transport may fail.
FailNext ==
  \/ ConnectNext
  \/ \E a \in Attempts : OnError(a)
  \/ \E m \in AudioMessages : ~m.interrupted /\ HandleLiveMessage(m, TRUE)
  \/ \E k \in 1..MaxChunks, d \in Durations : DecodeDone(k, d)
  \/ \E k \in 1..MaxChunks : SourceEnded(k)
  \/ Tick

SpecFail == Init /\ [][FailNext]_vars

\* The session lifecycle with the inbound events of an open session.
ReconnectNext ==
  \/ SessionNext
  \/ \E m \in TextMessages : ~HasText(m) /\ HandleLiveMessage(m, TRUE)

SpecReconnect == Init /\ [][ReconnectNext]_vars

\* The log of finalized Messages over the life of a session: its start, the
\* messages that carry an output delta or turnComplete, the renders that run
\* the queued updaters, and the control and the callbacks that end the session.
LogNext ==
  \/ ConnectNext
  \/ \E m \in TextMessages, eager \in BOOLEAN :
       m.inputTranscription = <<>> /\ HandleLiveMessage(m, eager)
  \/ Render
  \/ StopBranch
  \/ \E a \in Attempts : OnError(a)
  \/ \E a \in Attempts : OnClose(a)

SpecLog == Init /\ [][LogNext]_vars

\* The messages whose text, if any, is a whole turn: both deltas and
\* turnComplete; with or without interrupted and an audio payload.
WholeTurnMessages ==
  {m \in Messages :
     HasText(m) => /\ m.turnComplete
                   /\ m.outputTranscription # <<>> /\ m.inputTranscription # <<>>}

\* The cursor of one connected session: messages that carry audio, interrupts
\* and turns in every combination, and decodes that resolve or fail.
ClockNext ==
  \/ StartBranch /\ NumAttempts = 0
  \/ \E a \in Attempts : MicGranted(a)
  \/ \E a \in Attempts : OnOpen(a)
  \/ \E m \in WholeTurnMessages : HandleLiveMessage(m, TRUE)
  \/ \E k \in 1..MaxChunks, d \in Durations : DecodeDone(k, d)
  \/ \E k \in 1..MaxChunks : DecodeFail(k)
  \/ Tick

SpecClock == Init /\ [][ClockNext]_vars

\* Sessions that follow one another, their playback and their interrupts.
ResumeCutNext ==
  \/ ResumeAudioNext
  \/ \E m \in AudioMessages : m.interrupted /\ HandleLiveMessage(m, TRUE)

SpecResumeCut == Init /\ [][ResumeCutNext]_vars

\* One session from its start to its end, with its inbound messages: the
\* control, every callback of the transport, and messages that carry audio,
\* interrupts and turns in every combination.
OwnerNext ==
  \/ StartBranch /\ NumAttempts = 0
  \/ StopBranch
  \/ \E a \in Attempts : MicGranted(a)
  \/ \E a \in Attempts : MicDenied(a)
  \/ \E a \in Attempts : OnOpen(a)
  \/ \E a \in Attempts : OnError(a)
  \/ \E a \in Attempts : OnClose(a)
  \/ \E m \in WholeTurnMessages : HandleLiveMessage(m, TRUE)
  \/ \E k \in 1..MaxChunks, d \in Durations : DecodeDone(k, d)
  \/ \E k \in 1..MaxChunks : DecodeFail(k)

SpecOwner == Init /\ [][OwnerNext]_vars

\* ==================================================================== claims
\* A step that starts chunk k: its decode resolved and source.start was called.
Starts(k) == k \in DOMAIN chunks /\ chunks[k].st = "decoding" /\ chunks'[k].st = "started"

\* C1: when audio chunks are started in their arrival order with no interrupt
\* handled between two consecutive starts, each chunk's start time is at least
\* the previous chunk's start time plus the previous chunk's duration (so the
\* start times are non-decreasing).
C1_MonotonicScheduling ==
  [][\A k \in 1..MaxChunks :
       (Starts(k) /\ lastStarted # 0 /\ lastStarted < k /\ ~cutSinceStart)
         => /\ chunks'[k].start >= chunks[lastStarted].start + chunks[lastStarted].dur
            /\ chunks'[k].start >= chunks[lastStarted].start]_vars

\* C1's case: chunks 1 and 2 were started in that order, neither was stopped, and
\* chunk 2 was queued right behind chunk 1.
C1_Witness ==
  /\ Len(chunks) >= 2 /\ lastStarted = 2
  /\ chunks[1].st = "started" /\ chunks[2].st = "started"
  /\ chunks[2].start = chunks[1].start + chunks[1].dur

\* A step in which handleLiveMessage handles a message that carries interrupted
\* and no audio payload.
InterruptStep ==
  \E m \in AudioMessages : m.interrupted /\ ~m.audio /\ HandleLiveMessage(m, TRUE)

\* C2: after an interrupt every handle that was active is stopped, the active
\* set is empty and the cursor is 0; and the first chunk to arrive after an
\* interrupt is started at a time the output clock showed while that chunk was
\* handled, not at an offset left by a chunk from before the interrupt.
C2_InterruptClearsState ==
  [][/\ InterruptStep =>
          /\ activeSources' = {}
          /\ nextStartTime' = 0
          /\ \A k \in activeSources : chunks'[k].st = "stopped"
     /\ \A k \in 1..MaxChunks :
          (Starts(k) /\ chunks[k].afterCut)
            => /\ chunks[k].arrT <= chunks'[k].start
               /\ chunks'[k].start <= CurrentTime(chunks[k].ctx)]_vars

Appended(old, new) == SubSeq(new, Len(old) + 1, Len(new))

\* C3: a turnComplete that follows at least one input delta and at least one
\* output delta appends exactly two Messages, the user Message and then the
\* agent Message, each with the concatenation of its direction's deltas in
\* arrival order, and leaves both accumulators and both live texts empty.
C3_TurnAggregation ==
  [][(/\ Len(turnLog') = Len(turnLog) + 1
      /\ nDeltas' = nDeltas
      /\ turnLog'[Len(turnLog')][1] # <<>>
      /\ turnLog'[Len(turnLog')][2] # <<>>)
       => /\ Appended(history, history') =
               <<[role |-> "user", text |-> turnLog'[Len(turnLog')][1]],
                 [role |-> "model", text |-> turnLog'[Len(turnLog')][2]]>>
          /\ currentInputTranscription' = <<>>
          /\ currentOutputTranscription' = <<>>
          /\ streamingUserText' = <<>>
          /\ streamingModelText' = <<>>]_vars

\* C4: no Message with empty text is in the log: a turnComplete appends a
\* Message only for a direction whose accumulator is non-empty.
C4_NoEmptyMessage == \A i \in DOMAIN history : history[i].text # <<>>

C7_StartOnlyFromDisconnected ==
  \A a \in Attempts : attemptFrom[a] \in {"none", DISCONNECTED}

\* The attempt of the latest start.
CurrentAttempt == NumAttempts

\* C8: invoking the session control while CONNECTING or CONNECTED closes the
\* session of the current attempt, clears listening and leaves DISCONNECTED.
C8_StopClosesSession ==
  [][(toggleConnection /\ status \in {CONNECTING, CONNECTED})
       => /\ status' = DISCONNECTED
          /\ isListening' = FALSE
          /\ attempt'[CurrentAttempt] \in {"closing", "closed", "errored", "failed"}]_vars

\* The changes of ConnectionState the lifecycle allows.
AllowedTransitions ==
  {<<DISCONNECTED, CONNECTING>>, <<CONNECTING, CONNECTED>>, <<CONNECTING, ERROR>>,
   <<CONNECTED, ERROR>>, <<CONNECTING, DISCONNECTED>>, <<CONNECTED, DISCONNECTED>>,
   <<ERROR, DISCONNECTED>>}

\* C9: every change of status is one of the allowed transitions.
C9_AllowedTransitionsOnly ==
  [][status' # status => <<status, status'>> \in AllowedTransitions]_vars

\* C10: a transport error while CONNECTING or CONNECTED sets ERROR and tears
\* the capture down like a stop: listening is false and no capture callback is
\* left wired to send frames.
C10_ErrorTearsDown ==
  [][((\E a \in Attempts : OnError(a)) /\ status \in {CONNECTING, CONNECTED})
       => /\ status' = ERROR
          /\ isListening' = FALSE
          /\ capture' = {}]_vars

\* C11: every frame the capture callback sends is sent while the status is
\* CONNECTED: none before onopen, none after a stop, an error or a close.
C11_SendOnlyWhileConnected == sentIn \subseteq {CONNECTED}

\* The chunks whose source.start was called and whose source was not stopped.
Played == {k \in DOMAIN chunks : chunks[k].st \in {"started", "ended"}}

\* C12: of two chunks that arrived in the order j, k and were both started, j's
\* start time is not later than k's, in whatever order their decodes resolved.
C12_ArrivalOrderKept ==
  \A j \in Played, k \in Played : j < k => chunks[j].start <= chunks[k].start

\* C13: a chunk of duration d is started at max(cursor, now), with now the
\* output clock at the moment of source.start, and the cursor is start + d
\* afterwards; so no chunk is started at a time earlier than the output clock.
C13_StartAtMaxOfClockAndNow ==
  [][\A k \in 1..MaxChunks :
       Starts(k) =>
         LET now == CurrentTime(chunks[k].ctx) IN
           /\ chunks'[k].start = Max(nextStartTime, now)
           /\ chunks'[k].start >= now
           /\ nextStartTime' = chunks'[k].start + chunks'[k].dur]_vars

\* C14: when the microphone request of a start attempt fails, the status becomes
\* ERROR, listening stays false and no capture is wired; that attempt never
\* opens a transport session; and after a failed attempt a new attempt is made
\* only by the session control.
C14_MicFailureIsFatal ==
  [][/\ \A a \in Attempts :
          /\ MicDenied(a) => /\ status' = ERROR
                             /\ attempt'[a] = "failed"
                             /\ ~isListening => ~isListening'
                             /\ capture' = capture
                             /\ sessionRef' = sessionRef
          /\ attempt[a] = "failed" => attempt'[a] = "failed"
     /\ ((\E a \in Attempts : attempt[a] = "failed") /\ NumAttempts' # NumAttempts)
          => toggleConnection]_vars

\* C14's case: the only attempt so far failed at the microphone: the status is
\* ERROR, nothing is listening or captured and no session is held.
C14_Witness ==
  /\ attempt[1] = "failed" /\ \A b \in Attempts \ {1} : attempt[b] = "none"
  /\ status = ERROR /\ ~isListening /\ capture = {} /\ sessionRef = NoSession

\* The positions of an attempt whose transport is over or was never opened.
Over == {"failed", "errored", "closed"}

\* C15: the status becomes CONNECTING, and a start attempt is created, only in
\* a step of the session control; a transport is opened only for an attempt
\* the control started and that waits for its microphone; and an attempt that
\* failed, errored or closed is never opened again.
C15_ManualReconnectOnly ==
  [][/\ (status' = CONNECTING /\ status # CONNECTING) => toggleConnection
     /\ NumAttempts' # NumAttempts => toggleConnection
     /\ \A a \in Attempts :
          /\ (attempt[a] = "none" /\ attempt'[a] # "none")
               => (toggleConnection /\ attempt'[a] = "mic")
          /\ (attempt'[a] = "opening" /\ attempt[a] # "opening") => attempt[a] = "mic"
          /\ attempt[a] \in Over => attempt'[a] \in Over]_vars

\* C15's case: the first session failed with a transport error, and the control
\* was then invoked in ERROR and started the second attempt.
C15_Witness ==
  /\ attempt[1] \in {"errored", "closed"} /\ attemptFrom[2] = ERROR
  /\ attempt[2] = "mic" /\ status = CONNECTING

\* C16: when a session is started, both transcript accumulators and both live
\* texts are empty, whatever happened in the sessions before it.
C16_SessionStartsEmpty ==
  [][StartBranch => /\ currentInputTranscription' = <<>>
                    /\ currentOutputTranscription' = <<>>
                    /\ streamingUserText' = <<>>
                    /\ streamingModelText' = <<>>]_vars

\* C17: the first audio payload handled on the output context of a session is
\* booked at that context's current time: when it arrives the cursor becomes
\* the output clock's time, not an offset left by an earlier session.
C17_FirstChunkAtNewClock ==
  [][\A m \in AudioMessages :
       (/\ m.audio /\ ~m.interrupted /\ HandleLiveMessage(m, TRUE)
        /\ \A k \in DOMAIN chunks : chunks[k].ctx # outputAudioContext)
         => nextStartTime' = CurrentTime(outputAudioContext)]_vars

\* s is a prefix of t.
IsPrefix(s, t) == Len(s) <= Len(t) /\ SubSeq(t, 1, Len(s)) = s

\* C18: the log is append-only: every step leaves the log as it was or extends
\* it, so every earlier value of the log is a prefix of every later one.
C18_LogAppendOnly == [][IsPrefix(history, history')]_vars

\* C18's case: two turns were finalized with different texts, and the session
\* was then stopped and its transport closed.
C18_Witness ==
  /\ Len(history) = 4 /\ history[2].text # history[4].text
  /\ closeCalled # {} /\ attempt[1] = "closed" /\ status = DISCONNECTED

\* C20: handling a transport error stops no source and leaves the active set,
\* the cursor and every chunk's playback as they were.
C20_ErrorLeavesPlayback ==
  [][\A a \in Attempts :
       OnError(a) => /\ activeSources' = activeSources
                     /\ nextStartTime' = nextStartTime
                     /\ chunks' = chunks
                     /\ status' = ERROR]_vars

\* C20's case: the transport failed while a started source was still active and
\* the cursor stood behind it.
C20_Witness ==
  /\ attempt[1] = "errored" /\ status = ERROR
  /\ \E k \in activeSources : /\ chunks[k].st = "started"
                              /\ nextStartTime >= chunks[k].start + chunks[k].dur

\* The distance between two samples.
Dist(x, y) == IF x >= y THEN x - y ELSE y - x

\* C19: decoding the encoding of a frame of N samples gives exactly N samples,
\* each within one 16-bit quantization step of the original sample clamped to
\* [-1, 1].
C19_RoundTrip ==
  codecPc = "decoded" =>
    /\ Len(decoded) = Len(frame)
    /\ Len(encoded) = 2 * Len(frame)
    /\ \A i \in DOMAIN frame : Dist(decoded[i], Clamp(frame[i])) <= SubSteps

\* C19's case: a frame of several samples went through the codec, one of them
\* out of range and clamped, one of them in range and changed by quantization.
C19_Witness ==
  /\ codecPc = "decoded" /\ Len(frame) >= 2
  /\ \E i \in DOMAIN frame : frame[i] > Unit /\ decoded[i] = Unit
  /\ \E j \in DOMAIN frame : Dist(frame[j], 0) < Unit /\ decoded[j] # frame[j]

\* A step in which handleLiveMessage handles a message that carries interrupted.
HandlesInterrupt ==
  \E m \in Messages, eager \in BOOLEAN : m.interrupted /\ HandleLiveMessage(m, eager)

\* C21: the cursor never decreases from one state to the next, except in a
\* step that handles an interrupt: audio payloads, text deltas, turnComplete,
\* resolved decodes and failed decodes never lower it.
C21_ClockNeverDecreases ==
  [][nextStartTime' < nextStartTime => HandlesInterrupt]_vars

\* C21's case: a chunk was started and moved the cursor, another decode failed,
\* and a text delta and a turnComplete were handled, with the cursor standing.
C21_Witness ==
  /\ nextStartTime >= 2 /\ nDeltas >= 1 /\ Len(turnLog) >= 1
  /\ \E j \in DOMAIN chunks, k \in DOMAIN chunks :
       chunks[j].st = "started" /\ chunks[k].st = "failed"

\* The chunks whose source was started and has neither ended nor been stopped.
Playing == {k \in DOMAIN chunks : chunks[k].st = "started"}

\* C22: the active set holds exactly the sources that were started and have
\* neither ended nor been stopped by an interrupt; and the end callback of a
\* source that an interrupt stopped leaves the set as it is.
C22_ActiveSetExact ==
  [][/\ activeSources = Playing
     /\ activeSources' = {k \in DOMAIN chunks' : chunks'[k].st = "started"}
     /\ \A k \in DOMAIN chunks :
          (SourceEnded(k) /\ chunks[k].st = "stopped") => activeSources' = activeSources]_vars

\* C22's case: chunk 1 was started and then stopped by an interrupt, its end
\* callback is still to come, and chunk 2 was started and is the one active
\* source.
C22_Witness ==
  /\ Len(chunks) >= 2 /\ chunks[1].st = "stopped" /\ chunks[2].st = "started"
  /\ activeSources = {2}

\* C23: a message that carries an input delta leaves the input accumulator at
\* its previous value followed by the delta, whatever else the message carries;
\* and an output delta is appended to the output accumulator likewise.  (A
\* message that also carries turnComplete clears both afterwards and is left
\* to C3.)
C23_EveryDeltaAppended ==
  [][\A m \in TextMessages :
       (~m.turnComplete /\ HandleLiveMessage(m, TRUE))
         => /\ m.inputTranscription # <<>>
                 => currentInputTranscription' =
                      currentInputTranscription \o m.inputTranscription[1]
            /\ m.outputTranscription # <<>>
                 => currentOutputTranscription' =
                      currentOutputTranscription \o m.outputTranscription[1]]_vars

\* The start time line 193 computes for an audio payload that arrives now, from
\* the cursor next.
NextChunkStart(next) == Max(next, CurrentTime(outputAudioContext))

\* C24: an interrupt handled while the active set is empty changes nothing: the
\* active set, the accumulators, the live texts, the log and the status stay
\* as they are, no chunk is touched, and an audio payload arriving next is
\* given the start time it would have been given without the interrupt.
C24_InterruptOnEmptySetIsNoOp ==
  [][(InterruptStep /\ activeSources = {})
       => /\ activeSources' = {}
          /\ chunks' = [k \in DOMAIN chunks |->
                          [chunks[k] EXCEPT !.cutInFlight = chunks'[k].cutInFlight]]
          /\ UNCHANGED <<currentInputTranscription, currentOutputTranscription,
                         streamingUserText, streamingModelText, history, status,
                         isListening>>
          /\ NextChunkStart(nextStartTime') = NextChunkStart(nextStartTime)]_vars

\* A step of the session control (its catch clause included) or of the
\* transport's open, error or close callback.
LifecycleStep ==
  \/ toggleConnection
  \/ \E a \in Attempts : MicDenied(a) \/ OnOpen(a) \/ OnError(a) \/ OnClose(a)

\* C25: handling an inbound message, and finishing the decode it started,
\* leaves the status and the listening flag unchanged; every step that changes
\* either is a step of the session control or of the open, error or close
\* callback.
C25_OnlyLifecycleWritesStatus ==
  [][/\ (\/ \E m \in Messages, eager \in BOOLEAN : HandleLiveMessage(m, eager)
         \/ \E k \in 1..MaxChunks : DecodeFail(k) \/ \E d \in Durations : DecodeDone(k, d))
          => (status' = status /\ isListening' = isListening)
     /\ (status' # status \/ isListening' # isListening) => LifecycleStep]_vars

\* C25's case: the session is connected and listening after it handled a turn,
\* an interrupt that stopped a source, and a payload whose decode failed.
C25_Witness ==
  /\ status = CONNECTED /\ isListening /\ Len(turnLog) >= 1
  /\ \E j \in DOMAIN chunks, k \in DOMAIN chunks :
       chunks[j].st = "stopped" /\ chunks[k].st = "failed"

\* C26: a chunk that was being decoded when an interrupt was handled is never
\* started: no source.start is called for it and it never joins the active set.
C26_InFlightChunkDropped ==
  [][\A k \in DOMAIN chunks :
       (DecodeInFlight(k) /\ chunks[k].cutInFlight)
         => (chunks'[k].st # "started" /\ k \notin activeSources')]_vars

\* C27: the listening flag is true only while the status is CONNECTED.
C27_ListeningOnlyWhenConnected == isListening => status = CONNECTED

\* The attempts whose transport session is being opened or is open.
Live == {a \in Attempts : attempt[a] \in {"opening", "open"}}

\* C28: at most one transport session is open or being opened, and while the
\* status is DISCONNECTED none is open.
C28_SingleSession ==
  /\ Cardinality(Live) <= 1
  /\ status = DISCONNECTED => \A a \in Attempts : attempt[a] # "open"

====
